---- MODULE Spec2Model ----
(***************************************************************************)
(* Model of extensions/git/src/uri.ts: the git URI codec (toGitUri,        *)
(* fromGitUri, toMergeUris) and the symlink-resolving helpers built on     *)
(* fs.realpathSync.                                                        *)
(*                                                                         *)
(* A JavaScript string is a sequence of one-character strings.  A JSON     *)
(* value is a record tagged by t: "null", "str" (field s) or "obj" (field  *)
(* m, the members in insertion order, each <<key, scalar value>>).         *)
(* Every operation is a synchronous function; one action calls it on an    *)
(* input drawn from a bounded set and records the call in op, arg, ret.    *)
(***************************************************************************)
EXTENDS Naturals, Sequences, FiniteSets

VARIABLES fs, op, arg, ret

vars == <<fs, op, arg, ret>>

(***************************************************************************)
(* Bounds of the input sets.                                               *)
(***************************************************************************)
MaxStem == 1
MaxFolders == 2

(***************************************************************************)
(* Strings.                                                                *)
(***************************************************************************)
DotGit == <<".", "g", "i", "t">>
DotDiff == <<".", "d", "i", "f", "f">>
KeyPath == <<"p", "a", "t", "h">>
KeyRef == <<"r", "e", "f">>
KeySubmoduleOf == <<"s", "u", "b", "m", "o", "d", "u", "l", "e", "O", "f">>

EndsWith(s, suf) ==
    /\ Len(s) >= Len(suf)
    /\ SubSeq(s, Len(s) - Len(suf) + 1, Len(s)) = suf

\* Characters the regular expression dot does not match.
LineTerminators == {"\n", "\r"}

\* /.git$/.test(s): any one character but a line terminator, then "git", then
\* the end of the input (no m flag).
TestAnyGit(s) ==
    /\ Len(s) >= 4
    /\ SubSeq(s, Len(s) - 2, Len(s)) = <<"g", "i", "t">>
    /\ s[Len(s) - 3] \notin LineTerminators

\* s.replace(/.git$/, ''): the match, if any, is the last four characters.
ReplaceAnyGit(s) == IF TestAnyGit(s) THEN SubSeq(s, 1, Len(s) - 4) ELSE s

(***************************************************************************)
(* JSON values.                                                            *)
(***************************************************************************)
JNull == [t |-> "null"]
JStr(s) == [t |-> "str", s |-> s]
JObj(m) == [t |-> "obj", m |-> m]

HasKey(m, k) == \E i \in 1..Len(m) : m[i][1] = k
KeyIndex(m, k) == CHOOSE i \in 1..Len(m) : m[i][1] = k
\* obj[k] = v on an ordinary object: an existing key keeps its place.
SetMember(m, k, v) ==
    IF HasKey(m, k)
    THEN [m EXCEPT ![KeyIndex(m, k)] = <<k, v>>]
    ELSE Append(m, <<k, v>>)
GetMember(m, k) == m[KeyIndex(m, k)][2]

\* JSON.stringify's quoting of one character.
EscapeChar(c) ==
    CASE c = "\"" -> <<"\\", "\"">>
      [] c = "\\" -> <<"\\", "\\">>
      [] c = "\n" -> <<"\\", "n">>
      [] c = "\r" -> <<"\\", "r">>
      [] c = "\t" -> <<"\\", "t">>
      [] OTHER -> <<c>>

RECURSIVE Escape(_)
Escape(s) == IF s = <<>> THEN <<>> ELSE EscapeChar(Head(s)) \o Escape(Tail(s))

Quote(s) == <<"\"">> \o Escape(s) \o <<"\"">>

StringifyScalar(v) ==
    IF v.t = "null" THEN <<"n", "u", "l", "l">> ELSE Quote(v.s)

RECURSIVE StringifyMembers(_)
StringifyMembers(m) ==
    IF m = <<>> THEN <<>>
    ELSE Quote(m[1][1]) \o <<":">> \o StringifyScalar(m[1][2])
         \o (IF Len(m) > 1 THEN <<",">> ELSE <<>>)
         \o StringifyMembers(Tail(m))

\* JSON.stringify(v), no indent.
JSONstringify(v) ==
    IF v.t = "obj" THEN <<"{">> \o StringifyMembers(v.m) \o <<"}">>
    ELSE StringifyScalar(v)

\* JSON.parse, for the texts of the model: objects whose member values are
\* strings or null, strings, null, and malformed text.
Whitespace == {" ", "\n", "\r", "\t"}
PFail == [ok |-> FALSE]
At(t, i) == IF i <= Len(t) THEN t[i] ELSE "EOF"

RECURSIVE SkipWs(_, _)
SkipWs(t, i) == IF At(t, i) \in Whitespace THEN SkipWs(t, i + 1) ELSE i

Unescape(c) ==
    CASE c = "n" -> "\n"
      [] c = "r" -> "\r"
      [] c = "t" -> "\t"
      [] OTHER -> c

\* The string token whose opening quote is before position i.
RECURSIVE ScanString(_, _, _)
ScanString(t, i, acc) ==
    LET c == At(t, i) IN
    CASE i > Len(t) -> PFail
      [] i <= Len(t) /\ c = "\"" -> [ok |-> TRUE, v |-> JStr(acc), next |-> i + 1]
      [] i <= Len(t) /\ c = "\\" ->
            IF At(t, i + 1) \in {"\"", "\\", "/", "n", "r", "t"} /\ i + 1 <= Len(t)
            THEN ScanString(t, i + 2, Append(acc, Unescape(t[i + 1])))
            ELSE PFail
      [] i <= Len(t) /\ c \in {"\n", "\r", "\t"} -> PFail
      [] OTHER -> ScanString(t, i + 1, Append(acc, c))

ParseScalar(t, i) ==
    CASE At(t, i) = "\"" /\ i <= Len(t) -> ScanString(t, i + 1, <<>>)
      [] i + 3 <= Len(t) /\ SubSeq(t, i, i + 3) = <<"n", "u", "l", "l">> ->
            [ok |-> TRUE, v |-> JNull, next |-> i + 4]
      [] OTHER -> PFail

\* The members of an object from position i (a key) on; acc holds those read.
RECURSIVE ParseMembers(_, _, _)
ParseMembers(t, i, acc) ==
    IF ~(i <= Len(t) /\ t[i] = "\"") THEN PFail
    ELSE LET k == ScanString(t, i + 1, <<>>) IN
         IF ~k.ok THEN PFail
         ELSE LET c == SkipWs(t, k.next) IN
              IF ~(c <= Len(t) /\ t[c] = ":") THEN PFail
              ELSE LET v == ParseScalar(t, SkipWs(t, c + 1)) IN
                   IF ~v.ok THEN PFail
                   ELSE LET e == SkipWs(t, v.next)
                            m == SetMember(acc, k.v.s, v.v)
                        IN CASE e <= Len(t) /\ t[e] = "}" ->
                                    [ok |-> TRUE, v |-> JObj(m), next |-> e + 1]
                             [] e <= Len(t) /\ t[e] = "," ->
                                    ParseMembers(t, SkipWs(t, e + 1), m)
                             [] OTHER -> PFail

ParseValue(t, i) ==
    IF i <= Len(t) /\ t[i] = "{"
    THEN LET j == SkipWs(t, i + 1) IN
         IF j <= Len(t) /\ t[j] = "}"
         THEN [ok |-> TRUE, v |-> JObj(<<>>), next |-> j + 1]
         ELSE ParseMembers(t, j, <<>>)
    ELSE ParseScalar(t, i)

\* Results of a call: a value, or a thrown error; log lists the paths handed
\* to fs.realpathSync during the call, in order.
Ret(v, log) == [threw |-> FALSE, v |-> v, log |-> log]
Throw(e, log) == [threw |-> TRUE, v |-> e, log |-> log]

JSONparse(t) ==
    LET r == ParseValue(t, SkipWs(t, 1)) IN
    IF r.ok /\ SkipWs(t, r.next) = Len(t) + 1
    THEN Ret(r.v, <<>>)
    ELSE Throw("SyntaxError", <<>>)

(***************************************************************************)
(* The filesystem seen by fs.realpathSync: each node is a file, missing,   *)
(* unreadable, or a symbolic link to a node.  Every other path is missing. *)
(***************************************************************************)
NodeA == <<"/", "a">>
NodeB == <<"/", "b">>
FsNodes == {NodeA, NodeB}
FsKinds ==
    {[kind |-> "file"], [kind |-> "missing"], [kind |-> "denied"]}
    \cup {[kind |-> "link", to |-> n] : n \in FsNodes}
FsStates == [FsNodes -> FsKinds]

RECURSIVE Follow(_, _, _)
Follow(f, p, fuel) ==
    IF p \notin FsNodes THEN Throw("ENOENT", <<>>)
    ELSE CASE f[p].kind = "file" -> Ret(p, <<>>)
           [] f[p].kind = "missing" -> Throw("ENOENT", <<>>)
           [] f[p].kind = "denied" -> Throw("EACCES", <<>>)
           [] OTHER -> IF fuel = 0 THEN Throw("ELOOP", <<>>)
                       ELSE Follow(f, f[p].to, fuel - 1)

\* fs.realpathSync(p) on a string: one lookup, which returns the canonical
\* path or throws.
realpathSync(f, p) ==
    LET r == Follow(f, p, Cardinality(FsNodes)) IN
    [r EXCEPT !.log = <<p>>]

(***************************************************************************)
(* Uri: the five components, and with(), which returns a copy with the     *)
(* given components replaced.                                              *)
(***************************************************************************)
UriFields == {"scheme", "authority", "path", "query", "fragment"}
Uri(scheme, path, query, fragment) ==
    [scheme |-> scheme, authority |-> "", path |-> path, query |-> query,
     fragment |-> fragment]
UriWith(uri, change) ==
    [k \in UriFields |-> IF k \in DOMAIN change THEN change[k] ELSE uri[k]]
\* uri.fsPath of a local resource without authority.
fsPath(uri) == uri.path

(***************************************************************************)
(* The codec.                                                              *)
(***************************************************************************)
\* /^git$/.test(uri.scheme)
isGitUri(uri) == uri.scheme = "git"

fromGitUri(uri) == JSONparse(uri.query)

\* if (options.replaceFileExtension): the property is there and is true.
TruthyFlag(options, k) == k \in DOMAIN options /\ options[k]
\* if (options.submoduleOf): the property is there and is not ''.
TruthyString(options, k) == k \in DOMAIN options /\ options[k] # <<>>

NoOptions == [x \in {} |-> FALSE]
Ref1 == <<":", "1">>
Ref2 == <<":", "2">>
Ref3 == <<":", "3">>

\* Variant: the query's path is taken from the suffixed path component.
toGitUri_SuffixedParamsPath(uri, ref, options) ==
    LET path ==
            IF TruthyFlag(options, "replaceFileExtension") THEN uri.path \o DotGit
            ELSE IF TruthyString(options, "submoduleOf") THEN uri.path \o DotDiff
            ELSE uri.path
        base == <<<<KeyPath, JStr(path)>>, <<KeyRef, JStr(ref)>>>>
        params ==
            IF TruthyString(options, "submoduleOf")
            THEN Append(base, <<KeySubmoduleOf, JStr(options.submoduleOf)>>)
            ELSE base
    IN UriWith(uri, [scheme |-> "git", path |-> path,
                     query |-> JSONstringify(JObj(params))])

\* Variant: the two suffix tests in the other order.
toGitUri_DiffFirst(uri, ref, options) ==
    LET base == <<<<KeyPath, JStr(fsPath(uri))>>, <<KeyRef, JStr(ref)>>>>
        params ==
            IF TruthyString(options, "submoduleOf")
            THEN Append(base, <<KeySubmoduleOf, JStr(options.submoduleOf)>>)
            ELSE base
        path ==
            IF TruthyString(options, "submoduleOf") THEN uri.path \o DotDiff
            ELSE IF TruthyFlag(options, "replaceFileExtension") THEN uri.path \o DotGit
            ELSE uri.path
    IN UriWith(uri, [scheme |-> "git", path |-> path,
                     query |-> JSONstringify(JObj(params))])

toGitUri(uri, ref, options) ==
    LET base == <<<<KeyPath, JStr(fsPath(uri))>>, <<KeyRef, JStr(ref)>>>>
        params ==
            IF TruthyString(options, "submoduleOf")
            THEN Append(base, <<KeySubmoduleOf, JStr(options.submoduleOf)>>)
            ELSE base
        path ==
            IF TruthyFlag(options, "replaceFileExtension") THEN uri.path \o DotGit
            ELSE IF TruthyString(options, "submoduleOf") THEN uri.path \o DotDiff
            ELSE uri.path
    IN UriWith(uri, [scheme |-> "git", path |-> path,
                     query |-> JSONstringify(JObj(params))])


\* Variant: ours and theirs exchanged.
toMergeUris_OursTheirsSwapped(uri) ==
    [base |-> toGitUri(uri, Ref1, NoOptions),
     ours |-> toGitUri(uri, Ref3, NoOptions),
     theirs |-> toGitUri(uri, Ref2, NoOptions)]

toMergeUris(uri) ==
    [base |-> toGitUri(uri, Ref1, NoOptions),
     ours |-> toGitUri(uri, Ref2, NoOptions),
     theirs |-> toGitUri(uri, Ref3, NoOptions)]

(***************************************************************************)
(* The resolvers.                                                          *)
(***************************************************************************)
\* parsedQuery.path is a string the filesystem can be asked about.
HasStringPath(v) ==
    /\ v.t = "obj"
    /\ HasKey(v.m, KeyPath)
    /\ GetMember(v.m, KeyPath).t = "str"

\* Variant: the result holds the resolved path alone, without the spread.
fromGitUriAndResolve_PathOnly(f, uri) ==
    LET parsedQuery == JSONparse(uri.query) IN
    IF parsedQuery.threw THEN parsedQuery
    ELSE IF ~HasStringPath(parsedQuery.v)
         THEN Ret(parsedQuery.v, <<>>)
         ELSE LET r == realpathSync(f, GetMember(parsedQuery.v.m, KeyPath).s) IN
              IF r.threw THEN Ret(parsedQuery.v, r.log)
              ELSE Ret(JObj(<<<<KeyPath, JStr(r.v)>>>>), r.log)

fromGitUriAndResolve(f, uri) ==
    LET parsedQuery == JSONparse(uri.query) IN
    IF parsedQuery.threw THEN parsedQuery
    ELSE IF ~HasStringPath(parsedQuery.v)
         \* reading .path of null, or realpathSync(undefined), throws in the try
         THEN Ret(parsedQuery.v, <<>>)
         ELSE LET r == realpathSync(f, GetMember(parsedQuery.v.m, KeyPath).s) IN
              IF r.threw THEN Ret(parsedQuery.v, r.log)
              ELSE Ret(JObj(SetMember(parsedQuery.v.m, KeyPath, JStr(r.v))), r.log)

\* Variant: no try/catch around the lookup.
resolvePath_Rethrow(f, path) == realpathSync(f, path)

resolvePath(f, path) ==
    LET r == realpathSync(f, path) IN
    IF r.threw THEN Ret(path, r.log) ELSE r

resolveUri(f, uri) ==
    LET r == resolvePath(f, uri.path) IN
    Ret(UriWith(uri, [uri EXCEPT !.path = r.v]), r.log)

\* Variant: no try/catch around the body.
resolveUriWithGitScheme_NoCatch(f, uri) ==
    LET endsInGit == TestAnyGit(uri.path)
        oldPathResolved ==
            resolvePath(f, IF endsInGit THEN ReplaceAnyGit(uri.path) ELSE uri.path)
        newPath ==
            IF endsInGit THEN oldPathResolved.v \o DotGit ELSE oldPathResolved.v
        q == fromGitUriAndResolve(f, uri)
    IN IF uri.query # <<>>
       THEN IF q.threw
            THEN Throw(q.v, oldPathResolved.log \o q.log)
            ELSE Ret(UriWith(uri, [uri EXCEPT !.path = newPath,
                                              !.query = JSONstringify(q.v)]),
                     oldPathResolved.log \o q.log)
       ELSE Ret(UriWith(uri, [uri EXCEPT !.path = newPath]), oldPathResolved.log)

\* Variant: the stripped suffix is not put back.
resolveUriWithGitScheme_NoReappend(f, uri) ==
    LET endsInGit == TestAnyGit(uri.path)
        oldPathResolved ==
            resolvePath(f, IF endsInGit THEN ReplaceAnyGit(uri.path) ELSE uri.path)
        newPath == oldPathResolved.v
        q == fromGitUriAndResolve(f, uri)
    IN IF uri.query # <<>>
       THEN IF q.threw
            THEN Ret(uri, oldPathResolved.log \o q.log)
            ELSE Ret(UriWith(uri, [uri EXCEPT !.path = newPath,
                                              !.query = JSONstringify(q.v)]),
                     oldPathResolved.log \o q.log)
       ELSE Ret(UriWith(uri, [uri EXCEPT !.path = newPath]), oldPathResolved.log)

resolveUriWithGitScheme(f, uri) ==
    LET endsInGit == TestAnyGit(uri.path)
        oldPathResolved ==
            resolvePath(f, IF endsInGit THEN ReplaceAnyGit(uri.path) ELSE uri.path)
        newPath ==
            IF endsInGit THEN oldPathResolved.v \o DotGit ELSE oldPathResolved.v
        q == fromGitUriAndResolve(f, uri)
    IN IF uri.query # <<>>
       THEN IF q.threw
            THEN Ret(uri, oldPathResolved.log \o q.log)
            ELSE Ret(UriWith(uri, [uri EXCEPT !.path = newPath,
                                              !.query = JSONstringify(q.v)]),
                     oldPathResolved.log \o q.log)
       ELSE Ret(UriWith(uri, [uri EXCEPT !.path = newPath]), oldPathResolved.log)

\* Variant: each new folder is put in front of those built so far.
RECURSIVE MapFolders_Unshift(_, _)
MapFolders_Unshift(f, folders) ==
    IF folders = <<>> THEN Ret(<<>>, <<>>)
    ELSE LET folder == Head(folders)
             p == resolvePath(f, folder.uri.path)
             rest == MapFolders_Unshift(f, Tail(folders))
         IN Ret(rest.v \o
                <<[folder EXCEPT !.uri =
                      UriWith(folder.uri, [folder.uri EXCEPT !.path = p.v])]>>,
                p.log \o rest.log)

RECURSIVE MapFolders(_, _)
MapFolders(f, folders) ==
    IF folders = <<>> THEN Ret(<<>>, <<>>)
    ELSE LET folder == Head(folders)
             p == resolvePath(f, folder.uri.path)
             rest == MapFolders(f, Tail(folders))
         IN Ret(<<[folder EXCEPT !.uri =
                      UriWith(folder.uri, [folder.uri EXCEPT !.path = p.v])]>>
                \o rest.v,
                p.log \o rest.log)

\* workspaceFolders is [folders |-> a sequence], or Undefined.
Undefined == [undefined |-> TRUE]
resolveWorkspaceFolders(f, workspaceFolders) ==
    IF "folders" \notin DOMAIN workspaceFolders THEN Ret(<<>>, <<>>)
    ELSE MapFolders(f, workspaceFolders.folders)

RECURSIVE resolveWindowVisibleTextEditors(_, _)
resolveWindowVisibleTextEditors(f, editors) ==
    IF editors = <<>> THEN Ret(<<>>, <<>>)
    ELSE LET editor == Head(editors)
             u == resolveUri(f, editor.document.uri)
             rest == resolveWindowVisibleTextEditors(f, Tail(editors))
         IN Ret(<<[editor EXCEPT !.document =
                      [editor.document EXCEPT !.uri = u.v]]>> \o rest.v,
                u.log \o rest.log)

(***************************************************************************)
(* Inputs.                                                                 *)
(***************************************************************************)
BoundedSeq(S, n) == UNION {[1..k -> S] : k \in 0..n}

Stems == {<<"/">> \o [i \in 1..k |-> "a"] : k \in 0..MaxStem}
Endings ==
    {<<>>, DotGit, DotDiff, <<"x", "g", "i", "t">>, <<"/", "g", "i", "t">>,
     <<"\n", "g", "i", "t">>, <<"g", "i", "t">>, <<"\"">>, <<"\\">>}
Paths == {s \o e : s \in Stems, e \in Endings}

Refs == {<<"r">>, <<"\"">>}
SubmoduleValues == {<<>>, <<"/", "s">>}
Options ==
    {NoOptions}
    \cup {[replaceFileExtension |-> b] : b \in BOOLEAN}
    \cup {[submoduleOf |-> s] : s \in SubmoduleValues}
    \cup {[replaceFileExtension |-> b, submoduleOf |-> s] :
            b \in BOOLEAN, s \in SubmoduleValues}

SourceUris == {Uri("file", p, <<>>, "L1") : p \in Paths}
Schemes == {"file", "git", "gitx", "GIT", ""}

\* Queries the encoder writes, and texts it never writes.
QueryPaths == FsNodes \cup {<<"/", "\"">>, <<"/", "\\">>}
EncodedQueries ==
    {toGitUri(Uri("file", p, <<>>, ""), r, o).query :
        p \in QueryPaths, r \in {<<"r">>},
        o \in {NoOptions, [submoduleOf |-> <<"/", "s">>]}}
Member(k, v) == Quote(k) \o <<":">> \o v
OtherQueries ==
    {<<>>,
     <<"{">>,
     <<"{">> \o Member(KeyPath, Quote(NodeA)),
     <<"n", "u", "l", "l">>,
     Quote(NodeA),
     <<"{", "}">>,
     <<"{">> \o Member(KeyPath, <<"n", "u", "l", "l">>) \o <<"}">>,
     <<"{", " ">> \o Member(KeyPath, <<" ">> \o Quote(NodeA)) \o <<" ", "}">>,
     <<"{">> \o Member(KeyRef, Quote(<<"r">>)) \o <<",">>
             \o Member(KeyPath, Quote(NodeA)) \o <<"}">>,
     <<"{">> \o Member(KeyPath, Quote(NodeA)) \o <<",">>
             \o Member(<<"x">>, Quote(<<"y">>)) \o <<"}">>,
     <<"{">> \o Member(KeyPath, Quote(NodeA)) \o <<",">>
             \o Member(KeyPath, Quote(NodeB)) \o <<"}">>,
     <<"{">> \o Member(KeyPath, <<"\"", "\\", "/", "a", "\"">>) \o <<"}">>}
Queries == EncodedQueries \cup OtherQueries

FolderPaths == FsNodes \cup {<<"/">>}
Folders ==
    {[uri |-> Uri("file", p, <<>>, "L1"), name |-> "w", index |-> 0] :
        p \in FolderPaths}
Editors ==
    {[document |-> [uri |-> Uri("file", p, <<>>, "L1"), languageId |-> "ts"],
      viewColumn |-> 1] : p \in FolderPaths}

(***************************************************************************)
(* The calls.                                                              *)
(***************************************************************************)
Init ==
    /\ fs \in FsStates
    /\ op = "none"
    /\ arg = NoOptions
    /\ ret = Ret(FALSE, <<>>)

\* The module keeps no state between calls: a call starts when none is in
\* progress, and Return hands its result to the caller.
CallIsGitUri ==
    /\ op = "none"
    /\ \E scheme \in Schemes :
        /\ op' = "isGitUri"
        /\ arg' = [uri |-> Uri(scheme, NodeA, <<>>, "")]
        /\ ret' = Ret(isGitUri(arg'.uri), <<>>)
    /\ UNCHANGED fs

CallToGitUri ==
    /\ op = "none"
    /\ \E uri \in SourceUris, ref \in Refs, options \in Options :
        /\ op' = "toGitUri"
        /\ arg' = [uri |-> uri, ref |-> ref, options |-> options]
        /\ ret' = Ret(toGitUri(uri, ref, options), <<>>)
    /\ UNCHANGED fs

CallFromGitUri ==
    /\ op = "none"
    /\ \E q \in Queries :
        /\ op' = "fromGitUri"
        /\ arg' = [uri |-> Uri("git", NodeA, q, "")]
        /\ ret' = fromGitUri(arg'.uri)
    /\ UNCHANGED fs

CallToMergeUris ==
    /\ op = "none"
    /\ \E uri \in SourceUris :
        /\ op' = "toMergeUris"
        /\ arg' = [uri |-> uri]
        /\ ret' = Ret(toMergeUris(uri), <<>>)
    /\ UNCHANGED fs

CallFromGitUriAndResolve ==
    /\ op = "none"
    /\ \E q \in Queries :
        /\ op' = "fromGitUriAndResolve"
        /\ arg' = [uri |-> Uri("git", NodeA, q, "")]
        /\ ret' = fromGitUriAndResolve(fs, arg'.uri)
    /\ UNCHANGED fs

CallResolvePath ==
    /\ op = "none"
    /\ \E path \in Paths \cup FsNodes :
        /\ op' = "resolvePath"
        /\ arg' = [path |-> path]
        /\ ret' = resolvePath(fs, path)
    /\ UNCHANGED fs

CallResolveUri ==
    /\ op = "none"
    /\ \E uri \in SourceUris :
        /\ op' = "resolveUri"
        /\ arg' = [uri |-> uri]
        /\ ret' = resolveUri(fs, uri)
    /\ UNCHANGED fs

\* resolveUriWithGitScheme on an identifier the encoder produced from src.
CallResolveEncoded ==
    /\ op = "none"
    /\ \E src \in SourceUris, ref \in Refs, options \in Options :
        /\ op' = "resolveUriWithGitScheme"
        /\ arg' = [uri |-> toGitUri(src, ref, options), src |-> src,
                   options |-> options]
        /\ ret' = resolveUriWithGitScheme(fs, arg'.uri)
    /\ UNCHANGED fs

\* resolveUriWithGitScheme on any identifier.
CallResolveUriWithGitScheme ==
    /\ op = "none"
    /\ \E p \in Paths, q \in Queries :
        /\ op' = "resolveUriWithGitScheme"
        /\ arg' = [uri |-> Uri("git", p, q, "L1")]
        /\ ret' = resolveUriWithGitScheme(fs, arg'.uri)
    /\ UNCHANGED fs

CallResolveWorkspaceFolders ==
    /\ op = "none"
    /\ \E w \in {Undefined}
               \cup {[folders |-> s] : s \in BoundedSeq(Folders, MaxFolders)} :
        /\ op' = "resolveWorkspaceFolders"
        /\ arg' = [workspaceFolders |-> w]
        /\ ret' = resolveWorkspaceFolders(fs, w)
    /\ UNCHANGED fs

CallResolveWindowVisibleTextEditors ==
    /\ op = "none"
    /\ \E editors \in BoundedSeq(Editors, MaxFolders) :
        /\ op' = "resolveWindowVisibleTextEditors"
        /\ arg' = [editors |-> editors]
        /\ ret' = resolveWindowVisibleTextEditors(fs, editors)
    /\ UNCHANGED fs

Return ==
    /\ op # "none"
    /\ op' = "none"
    /\ arg' = NoOptions
    /\ ret' = Ret(FALSE, <<>>)
    /\ UNCHANGED fs

Next ==
    \/ Return
    \/ CallIsGitUri
    \/ CallToGitUri
    \/ CallFromGitUri
    \/ CallToMergeUris
    \/ CallFromGitUriAndResolve
    \/ CallResolvePath
    \/ CallResolveUri
    \/ CallResolveEncoded
    \/ CallResolveUriWithGitScheme
    \/ CallResolveWorkspaceFolders
    \/ CallResolveWindowVisibleTextEditors

Spec == Init /\ [][Next]_vars

(***************************************************************************)
(* Properties.                                                             *)
(***************************************************************************)
\* The members of an object as a set: a record compared field for field.
Fields(v) == {v.m[i] : i \in 1..Len(v.m)}
IsRecord(v, fields) ==
    /\ v.t = "obj"
    /\ Len(v.m) = Cardinality(fields)
    /\ Fields(v) = fields
DecodedPath(uri) == GetMember(fromGitUri(uri).v.m, KeyPath).s
\* The suffix the encoder's contract appends for these options.
SuffixFor(options) ==
    IF TruthyFlag(options, "replaceFileExtension") THEN DotGit
    ELSE IF TruthyString(options, "submoduleOf") THEN DotDiff
    ELSE <<>>
EncodeCall == op = "toGitUri" /\ ~TruthyFlag(arg.options, "replaceFileExtension")

\* C1 as stated: decoding toGitUri's result (replaceFileExtension false) gives
\* back the record {path, ref, submoduleOf?} that was encoded, with submoduleOf
\* there, with its value, exactly when the options held a submoduleOf.
C1_RoundTripAnySubmodule ==
    EncodeCall =>
        /\ ~fromGitUri(ret.v).threw
        /\ IsRecord(fromGitUri(ret.v).v,
               {<<KeyPath, JStr(fsPath(arg.uri))>>, <<KeyRef, JStr(arg.ref)>>}
               \cup (IF "submoduleOf" \in DOMAIN arg.options
                     THEN {<<KeySubmoduleOf, JStr(arg.options.submoduleOf)>>}
                     ELSE {}))

\* C1, amended: decoding toGitUri's result (replaceFileExtension false) gives
\* back path and ref, and submoduleOf with its value exactly when the options
\* held a non-empty submoduleOf; an empty one is dropped by the encoder.
C1_RoundTrip ==
    EncodeCall =>
        /\ ~fromGitUri(ret.v).threw
        /\ IsRecord(fromGitUri(ret.v).v,
               {<<KeyPath, JStr(fsPath(arg.uri))>>, <<KeyRef, JStr(arg.ref)>>}
               \cup (IF /\ "submoduleOf" \in DOMAIN arg.options
                        /\ arg.options.submoduleOf # <<>>
                     THEN {<<KeySubmoduleOf, JStr(arg.options.submoduleOf)>>}
                     ELSE {}))

\* A record with a submoduleOf, and a quote to escape in path and in ref, has
\* been encoded.
C1_Witness ==
    /\ EncodeCall
    /\ TruthyString(arg.options, "submoduleOf")
    /\ EndsWith(arg.uri.path, <<"\"">>)
    /\ arg.ref = <<"\"">>
    /\ ~fromGitUri(ret.v).threw

\* C2: the path component of toGitUri's result is the source path followed by
\* ".git" if replaceFileExtension is set, else by ".diff" if submoduleOf is
\* set, else by nothing; the path inside the query is the source's own.
C2_SuffixRule ==
    op = "toGitUri" =>
        /\ ret.v.path = arg.uri.path \o SuffixFor(arg.options)
        /\ ~fromGitUri(ret.v).threw
        /\ DecodedPath(ret.v) = fsPath(arg.uri)

\* Both options set: ".git" is appended, ".diff" is not.
C2_Witness ==
    /\ op = "toGitUri"
    /\ TruthyFlag(arg.options, "replaceFileExtension")
    /\ TruthyString(arg.options, "submoduleOf")
    /\ ret.v.path = arg.uri.path \o DotGit

\* C3: toMergeUris returns base, ours and theirs, whose queries decode to the
\* refs ":1", ":2", ":3" and to the source's path, with no submoduleOf, and
\* whose path component is the source's, with nothing appended.
C3_MergeTriple ==
    op = "toMergeUris" =>
        /\ DOMAIN ret.v = {"base", "ours", "theirs"}
        /\ \A k \in DOMAIN ret.v :
            /\ ~fromGitUri(ret.v[k]).threw
            /\ IsRecord(fromGitUri(ret.v[k]).v,
                   {<<KeyPath, JStr(fsPath(arg.uri))>>,
                    <<KeyRef, JStr(CASE k = "base" -> <<":", "1">>
                                     [] k = "ours" -> <<":", "2">>
                                     [] k = "theirs" -> <<":", "3">>)>>})
            /\ ret.v[k].path = arg.uri.path
            /\ ret.v[k].scheme = "git"

\* The merge triple of a source whose path needs escaping in the query.
C3_Witness ==
    /\ op = "toMergeUris"
    /\ EndsWith(arg.uri.path, <<"\\">>)
    /\ DecodedPath(ret.v.theirs) = arg.uri.path

\* C4: resolvePath never throws; it returns what the lookup returned when the
\* lookup succeeds and its argument when the lookup fails, after exactly one
\* lookup, of its argument.
C4_ResolvePathBestEffort ==
    op = "resolvePath" =>
        /\ ~ret.threw
        /\ ret.v = IF realpathSync(fs, arg.path).threw THEN arg.path
                   ELSE realpathSync(fs, arg.path).v
        /\ ret.log = <<arg.path>>

\* resolvePath has been called on a path the filesystem refuses to read.
C4_Witness ==
    /\ op = "resolvePath"
    /\ arg.path = NodeA
    /\ fs[NodeA].kind = "denied"
    /\ ret.v = NodeA

\* C5: fromGitUriAndResolve throws exactly when fromGitUri does, and the same
\* error; otherwise, when the decoded path resolves, it returns fromGitUri's
\* record with the path member alone replaced by the resolved path, and when
\* it does not resolve, fromGitUri's record itself.
C5_ResolveRelatesToDecode ==
    op = "fromGitUriAndResolve" =>
        LET d == fromGitUri(arg.uri)
            resolves ==
                /\ HasStringPath(d.v)
                /\ ~realpathSync(fs, GetMember(d.v.m, KeyPath).s).threw
        IN /\ ret.threw = d.threw
           /\ d.threw => ret.v = d.v
           /\ ~d.threw /\ ~resolves => ret.v = d.v
           /\ ~d.threw /\ resolves =>
                /\ ret.v.t = "obj"
                /\ Len(ret.v.m) = Len(d.v.m)
                /\ \A i \in 1..Len(d.v.m) :
                     ret.v.m[i] =
                        IF d.v.m[i][1] = KeyPath
                        THEN <<KeyPath,
                               JStr(realpathSync(fs, GetMember(d.v.m, KeyPath).s).v)>>
                        ELSE d.v.m[i]

\* A record with ref and submoduleOf whose path is a symbolic link has been
\* decoded with resolution.
C5_Witness ==
    /\ op = "fromGitUriAndResolve"
    /\ ~ret.threw
    /\ HasStringPath(ret.v)
    /\ HasKey(ret.v.m, KeySubmoduleOf)
    /\ DecodedPath(arg.uri) = NodeA
    /\ GetMember(ret.v.m, KeyPath).s = NodeB

ResolveCall == op = "resolveUriWithGitScheme"
\* The query does not parse, and is there to be parsed.
QueryMalformed(uri) == uri.query # <<>> /\ fromGitUri(uri).threw
\* The lookup of the outer path (the first of the call) failed.
OuterLookupFailed == realpathSync(fs, ret.log[1]).threw
\* The query parses and the path it holds did not resolve.
InnerLookupFailed(uri) ==
    /\ uri.query # <<>>
    /\ ~fromGitUri(uri).threw
    /\ \/ ~HasStringPath(fromGitUri(uri).v)
       \/ realpathSync(fs, DecodedPath(uri)).threw

\* The pattern /.git$/ and the test "ends in .git" agree on this path.
SuffixTestExact(path) == TestAnyGit(path) => EndsWith(path, DotGit)

\* C6 as stated: resolveUriWithGitScheme never throws, and returns its
\* argument unchanged whenever the outer path does not resolve, the query is
\* not valid JSON, or the path in the query does not resolve.  Stated for the
\* paths on which the suffix test is exact, so that what refutes it is the
\* handling of failures and not the pattern.
C6_OriginalOnAnyFailure ==
    ResolveCall /\ SuffixTestExact(arg.uri.path) =>
        /\ ~ret.threw
        /\ (\/ OuterLookupFailed
            \/ QueryMalformed(arg.uri)
            \/ InnerLookupFailed(arg.uri)) => ret.v = arg.uri

\* C6, amended: resolveUriWithGitScheme never throws; it returns its argument
\* unchanged when the query is not valid JSON; when the query is valid and the
\* path in it does not resolve, the result's query decodes to the same record
\* as the argument's.
C6_OriginalOnMalformedQuery ==
    ResolveCall =>
        /\ ~ret.threw
        /\ QueryMalformed(arg.uri) => ret.v = arg.uri
        /\ InnerLookupFailed(arg.uri) =>
              /\ ~fromGitUri(ret.v).threw
              /\ fromGitUri(ret.v).v = fromGitUri(arg.uri).v

\* A malformed query came with an outer path that does resolve, to another
\* path, and the argument was returned as it was.
C6_Witness ==
    /\ ResolveCall
    /\ QueryMalformed(arg.uri)
    /\ arg.uri.path = NodeA
    /\ ~realpathSync(fs, NodeA).threw
    /\ realpathSync(fs, NodeA).v = NodeB
    /\ ret.v = arg.uri

StripDotGit(path) == SubSeq(path, 1, Len(path) - 4)

\* C7 as stated: for a path ending in ".git", the result's path is
\* resolvePath of the path without ".git", followed by ".git".
C7_SuffixPreservedAlways ==
    ResolveCall /\ EndsWith(arg.uri.path, DotGit) =>
        /\ EndsWith(ret.v.path, DotGit)
        /\ ret.v.path = resolvePath(fs, StripDotGit(arg.uri.path)).v \o DotGit

\* C7, amended: for a path ending in ".git", the result's path ends in ".git";
\* it is resolvePath of the path without ".git", followed by ".git", when the
\* query is empty or valid JSON, and the argument's path when the query is not
\* valid JSON.
C7_SuffixPreserved ==
    ResolveCall /\ EndsWith(arg.uri.path, DotGit) =>
        /\ EndsWith(ret.v.path, DotGit)
        /\ ret.v.path =
              IF QueryMalformed(arg.uri) THEN arg.uri.path
              ELSE resolvePath(fs, StripDotGit(arg.uri.path)).v \o DotGit

\* "/a.git" with a valid query, where "/a" is a link to "/b", became "/b.git".
C7_Witness ==
    /\ ResolveCall
    /\ arg.uri.path = NodeA \o DotGit
    /\ arg.uri.query # <<>>
    /\ ~QueryMalformed(arg.uri)
    /\ ret.v.path = NodeB \o DotGit

\* C8: resolveWorkspaceFolders and resolveWindowVisibleTextEditors never throw
\* and return a sequence as long as their argument whose i-th element is the
\* argument's i-th element with the path of its uri alone replaced by
\* resolvePath of that path; resolveWorkspaceFolders returns the empty sequence
\* for an undefined or empty argument.
C8_BatchShape ==
    /\ op = "resolveWorkspaceFolders" =>
        /\ ~ret.threw
        /\ "folders" \notin DOMAIN arg.workspaceFolders => ret.v = <<>>
        /\ "folders" \in DOMAIN arg.workspaceFolders =>
            LET in == arg.workspaceFolders.folders IN
            /\ Len(ret.v) = Len(in)
            /\ \A i \in 1..Len(in) :
                 ret.v[i] =
                    [in[i] EXCEPT !.uri.path = resolvePath(fs, in[i].uri.path).v]
    /\ op = "resolveWindowVisibleTextEditors" =>
        /\ ~ret.threw
        /\ Len(ret.v) = Len(arg.editors)
        /\ \A i \in 1..Len(arg.editors) :
             ret.v[i] =
                [arg.editors[i] EXCEPT !.document.uri.path =
                    resolvePath(fs, arg.editors[i].document.uri.path).v]

\* Two folders: the first does not resolve and stays, the second is a link and
\* is replaced by its target.
C8_Witness ==
    /\ op = "resolveWorkspaceFolders"
    /\ "folders" \in DOMAIN arg.workspaceFolders
    /\ Len(arg.workspaceFolders.folders) = 2
    /\ arg.workspaceFolders.folders[1].uri.path = <<"/">>
    /\ arg.workspaceFolders.folders[2].uri.path = NodeA
    /\ ret.v[1].uri.path = <<"/">>
    /\ ret.v[2].uri.path = NodeB

\* The path component without the suffix the encoder appended to it.
WithoutSuffix(path, suffix) ==
    IF EndsWith(path, suffix) THEN SubSeq(path, 1, Len(path) - Len(suffix))
    ELSE path

\* C9: for an identifier toGitUri produced, the path in the query of
\* resolveUriWithGitScheme's result is the result's path component without
\* the suffix the encoder appended.  Stated for the paths on which the suffix
\* test is exact, so that what refutes it is not the pattern.
C9_InnerOuterConsistent ==
    ResolveCall /\ "src" \in DOMAIN arg /\ SuffixTestExact(arg.uri.path) =>
        /\ ~fromGitUri(ret.v).threw
        /\ DecodedPath(ret.v) = WithoutSuffix(ret.v.path, SuffixFor(arg.options))

\* C10: for a path that does not end in the four characters ".git",
\* resolveUriWithGitScheme looks up the whole path and appends nothing: when
\* resolvePath leaves the path as it is, the result's path is the argument's.
C10_ExactSuffix ==
    ResolveCall /\ ~EndsWith(arg.uri.path, DotGit) =>
        /\ ret.log[1] = arg.uri.path
        /\ resolvePath(fs, arg.uri.path).v = arg.uri.path =>
              ret.v.path = arg.uri.path

====
